---- MODULE Spec2Model ----
(***************************************************************************)
(* A model of econml/validate/drtester.py: the DRTester class.             *)
(*                                                                         *)
(* Spec       the life cycle of one DRTester instance: which attributes    *)
(*            each call sets, in which order, and where each call raises.  *)
(* SpecShape  get_cate_preds: the shape of the cached prediction matrices. *)
(* SpecNuis   fit_nuisance: the arms the columns of the regression and     *)
(*            propensity prediction matrices belong to.                    *)
(*                                                                         *)
(* SpecCV     fit_nuisance_cv: which rows the model behind each regression *)
(*            prediction was fitted on.                                    *)
(*                                                                         *)
(* SpecCal    evaluate_cal: the calibration score of one arm, in exact     *)
(*            rational arithmetic.                                         *)
(*                                                                         *)
(* SpecFit    fit_nuisance: the rows and the sample weights each model fit *)
(*            is given.                                                    *)
(* SpecRes    the result objects of the evaluate calls, as objects with    *)
(*            identity.                                                    *)
(* SpecThr    two threads in evaluate calls on one instance, statement by  *)
(*            statement through the lazy get_cate_preds.                   *)
(*                                                                         *)
(* Each specification moves its own variable and leaves the others at Idle.*)
(***************************************************************************)
EXTENDS Integers, Sequences, FiniteSets, TLC

VARIABLES
    drt,      \* Spec: the attributes of the instance
    last,     \* Spec: the last call and how it ended
    fitted,   \* Spec: whether a fit_nuisance call ever returned
    shp,      \* SpecShape: one get_cate_preds call
    nuis,     \* SpecNuis: one fit_nuisance call
    cvs,      \* SpecCV: one fit_nuisance_cv call
    cal,      \* SpecCal: one arm of one evaluate_cal call
    wfit,     \* SpecFit: one fit_nuisance call and the model fits it makes
    robj,     \* SpecRes: the result objects and the names bound to them
    thr       \* SpecThr: threads calling evaluate_* on one instance

vars == <<drt, last, fitted, shp, nuis, cvs, cal, wfit, robj, thr>>

Idle == <<>>

(***************************************************************************)
(* Bounds of the model.                                                    *)
(***************************************************************************)
\* validation samples a caller may pass, told apart by their identity
NSamples == 1
\* rows of every sample of the life-cycle model
NRows == 2
\* get_cate_preds: rows of a feature matrix, non-control arms, and trailing
\* singleton dimensions of the CATE model's effect output
MaxN == 3
MaxArms == 3
MaxExtraDims == 2
\* fit_nuisance: treatment labels are 0..MaxLabel
MaxLabel == 3
\* fit_nuisance_cv: rows of the sample that is cross-fitted
CvRows == 3
\* evaluate_cal: rows of the training and of the validation sample, the values
\* 0..MaxVal of a DR outcome or a CATE prediction, the weights 1..MaxWeight,
\* and n_groups in 1..MaxGroups
CalRows == 2
MaxVal == 2
MaxWeight == 2
MaxGroups == 2
\* result objects: the objects that may be allocated on the heap
MaxObjects == 7
\* threads calling evaluate_* on one instance at the same time
NThreads == 2

(***************************************************************************)
(* Python values.  An optional value is a sequence of length 0 or 1: an    *)
(* attribute that was never set, or an argument left at None, is <<>>.     *)
(***************************************************************************)
None == <<>>
Some(v) == <<v>>

Min2(a, b) == IF a <= b THEN a ELSE b

\* the attributes of a fresh instance (__init__ sets none of the cached ones)
FreshInstance ==
    [treatments |-> None, n_treat |-> None, fit_on_train |-> None,
     dr_train_ |-> None, dr_val_ |-> None, ate_val |-> None,
     cate_preds_val_ |-> None, cate_preds_train_ |-> None,
     blp_res |-> None, cal_res |-> None, uplift_res |-> None, res |-> None]

\* what a method call leaves: the instance, how the call ended ("ok" or the
\* exception raised) and the effect queries it issued per sample
Ret(self, out, qv, qt) == [self |-> self, out |-> out, qv |-> qv, qt |-> qt]

(***************************************************************************)
(* Inputs.                                                                 *)
(***************************************************************************)
\* a sample weight is a rational <<numerator, denominator>>
WeightVals == {<<1, 2>>, <<1, 1>>, <<3, 2>>}
WeightVecs == {[i \in 1..NRows |-> IF i = 1 THEN v ELSE <<1, 1>>] : v \in WeightVals}
WeightArgs == {None} \cup {Some(w) : w \in WeightVecs}
SampleArgs == {None} \cup {Some(s) : s \in 1..NSamples}
TrainArgs == {None, Some(0)}
\* Dval's labels, sorted and unique
LabelSets == {<<0, 1>>, <<0, 1, 2>>}

\* ndarray.astype(int) of a positive weight: truncation
astype_int(w) == w[1] \div w[2]
IsIntegral(w) == w[1] % w[2] = 0
\* the claim's "non-integer or less than 1", of a supplied weight vector
BadWeights(sw) ==
    sw # None /\ \E i \in DOMAIN sw[1] : ~IsIntegral(sw[1][i]) \/ sw[1][i][1] < sw[1][i][2]
\* np.all(sampleweight.astype(int) >= 1); np.ones when the argument is None
WeightsAsserted(sw) ==
    sw = None \/ \A i \in DOMAIN sw[1] : astype_int(sw[1][i]) >= 1

(***************************************************************************)
(* calculate_dr_outcomes (econml/validate/utils.py): one column per        *)
(* non-control arm of `treatments`, one row per unit.                      *)
(***************************************************************************)
calculate_dr_outcomes(sample, treatments, mode) ==
    [sample |-> sample, cols |-> Len(treatments) - 1, mode |-> mode]

(***************************************************************************)
(* fit_nuisance.  nuisFail is where a nuisance model raises: "none", "cv"  *)
(* (the first fit_nuisance_cv call) or "train" (fit_nuisance_train).       *)
(***************************************************************************)
fit_nuisance(self, Xval, Dlabels, Xtrain, Dtrain, ytrain, nuisFail) ==
    LET fot == (Xtrain # None) /\ (Dtrain # None) /\ (ytrain # None)
        s0 == [self EXCEPT !.treatments = Some(Dlabels),
                           !.n_treat = Some(Len(Dlabels) - 1),
                           !.fit_on_train = Some(fot)]
    IN  IF nuisFail = "cv" THEN Ret(s0, "ModelError", 0, 0)
        ELSE IF fot
        THEN LET s1 == [s0 EXCEPT !.dr_train_ =
                            Some(calculate_dr_outcomes(0, Dlabels, "cv"))]
             IN  IF nuisFail = "train" THEN Ret(s1, "ModelError", 0, 0)
                 ELSE Ret([s1 EXCEPT
                             !.dr_val_ = Some(calculate_dr_outcomes(Xval, Dlabels, "train_apply")),
                             !.ate_val = Some([cols |-> Len(Dlabels) - 1])],
                          "ok", 0, 0)
        ELSE Ret([s0 EXCEPT
                    !.dr_val_ = Some(calculate_dr_outcomes(Xval, Dlabels, "cv")),
                    !.ate_val = Some([cols |-> Len(Dlabels) - 1])],
                 "ok", 0, 0)

(***************************************************************************)
(* get_cate_preds.  cateFail is where the CATE model's effect raises:      *)
(* "none", "val" or "train".                                               *)
(***************************************************************************)
get_cate_preds(self, Xval, Xtrain, cateFail) ==
    IF self.treatments = None THEN Ret(self, "AttributeError", 0, 0)
    ELSE IF cateFail = "val" THEN Ret(self, "ModelError", 1, 0)
    ELSE LET cols == Len(self.treatments[1]) - 1
             s1 == [self EXCEPT !.cate_preds_val_ =
                        Some([sample |-> Xval[1], cols |-> cols])]
         IN  IF Xtrain = None THEN Ret(s1, "ok", 1, 0)
             ELSE IF cateFail = "train" THEN Ret(s1, "ModelError", 1, 1)
             ELSE Ret([s1 EXCEPT !.cate_preds_train_ =
                          Some([sample |-> Xtrain[1], cols |-> cols])],
                      "ok", 1, 1)

\* a call that continues after get_cate_preds: the rest runs on r.self and
\* keeps the queries r issued
Then(r, rest) == Ret(rest.self, rest.out, r.qv + rest.qv, r.qt + rest.qt)

(***************************************************************************)
(* evaluate_blp                                                            *)
(***************************************************************************)
blp_core(self) ==
    IF self.n_treat[1] > Min2(self.dr_val_[1].cols, self.cate_preds_val_[1].cols)
    THEN Ret(self, "IndexError", 0, 0)
    ELSE Ret([self EXCEPT !.blp_res = Some([test |-> "blp"])], "ok", 0, 0)

evaluate_blp(self, Xval, Xtrain, cateFail) ==
    IF self.dr_val_ = None THEN Ret(self, "NuisanceError", 0, 0)
    ELSE IF self.cate_preds_val_ = None
    THEN IF Xval = None THEN Ret(self, "CateMissingError", 0, 0)
         ELSE LET r == get_cate_preds(self, Xval, Xtrain, cateFail)
              IN  IF r.out # "ok" THEN r ELSE Then(r, blp_core(r.self))
    ELSE blp_core(self)

(***************************************************************************)
(* evaluate_cal                                                            *)
(***************************************************************************)
cal_core(self, swv, swt) ==
    IF ~(WeightsAsserted(swv) /\ WeightsAsserted(swt))
    THEN Ret(self, "AssertionError", 0, 0)
    ELSE IF self.dr_val_ = None \/ self.ate_val = None
    THEN Ret(self, "AttributeError", 0, 0)
    ELSE IF self.n_treat[1] > Min2(Min2(self.cate_preds_train_[1].cols,
                                        self.cate_preds_val_[1].cols),
                                   Min2(self.dr_val_[1].cols, self.ate_val[1].cols))
    THEN Ret(self, "IndexError", 0, 0)
    ELSE Ret([self EXCEPT !.cal_res = Some([test |-> "cal"])], "ok", 0, 0)

evaluate_cal(self, Xval, Xtrain, swv, swt, cateFail) ==
    IF self.dr_train_ = None THEN Ret(self, "TrainNuisanceError", 0, 0)
    ELSE IF self.cate_preds_train_ = None \/ self.cate_preds_val_ = None
    THEN IF Xval = None \/ Xtrain = None THEN Ret(self, "CateMissingError", 0, 0)
         ELSE LET r == get_cate_preds(self, Xval, Xtrain, cateFail)
              IN  IF r.out # "ok" THEN r ELSE Then(r, cal_core(r.self, swv, swt))
    ELSE cal_core(self, swv, swt)

(***************************************************************************)
(* evaluate_uplift                                                         *)
(***************************************************************************)
uplift_core(self, metric, swv, swt) ==
    IF ~(WeightsAsserted(swv) /\ WeightsAsserted(swt))
    THEN Ret(self, "AssertionError", 0, 0)
    ELSE IF self.n_treat[1] > Min2(Min2(self.cate_preds_train_[1].cols,
                                        self.cate_preds_val_[1].cols),
                                   self.dr_val_[1].cols)
    THEN Ret(self, "IndexError", 0, 0)
    ELSE Ret([self EXCEPT !.uplift_res = Some([test |-> metric])], "ok", 0, 0)

evaluate_uplift(self, Xval, Xtrain, metric, swv, swt, cateFail) ==
    IF self.dr_val_ = None THEN Ret(self, "NuisanceError", 0, 0)
    ELSE IF self.cate_preds_train_ = None \/ self.cate_preds_val_ = None
    THEN IF Xval = None \/ Xtrain = None THEN Ret(self, "CateMissingError", 0, 0)
         ELSE LET r == get_cate_preds(self, Xval, Xtrain, cateFail)
              IN  IF r.out # "ok" THEN r
                  ELSE Then(r, uplift_core(r.self, metric, swv, swt))
    ELSE uplift_core(self, metric, swv, swt)

(***************************************************************************)
(* evaluate_all.  The weights it hands on are the converted ones, which    *)
(* passed its own assertion.                                               *)
(***************************************************************************)
all_tests(self, Xval, Xtrain, swv, swt) ==
    LET b == evaluate_blp(self, Xval, Xtrain, "none")
    IN  IF b.out # "ok" THEN b ELSE
    LET c == evaluate_cal(b.self, Xval, Xtrain, None, None, "none")
    IN  IF c.out # "ok" THEN c ELSE
    LET q == evaluate_uplift(c.self, Xval, Xtrain, "qini", None, None, "none")
    IN  IF q.out # "ok" THEN q ELSE
    LET t == evaluate_uplift(q.self, Xval, Xtrain, "toc", None, None, "none")
    IN  IF t.out # "ok" THEN t ELSE
        Ret([t.self EXCEPT !.res = Some([blp_res |-> b.self.blp_res[1],
                                         cal_res |-> c.self.cal_res[1],
                                         qini_res |-> q.self.uplift_res[1],
                                         toc_res |-> t.self.uplift_res[1]])],
            "ok", 0, 0)

all_core(self, Xval, Xtrain, swv, swt) ==
    IF ~(WeightsAsserted(swv) /\ WeightsAsserted(swt))
    THEN Ret(self, "AssertionError", 0, 0)
    ELSE all_tests(self, Xval, Xtrain, swv, swt)

evaluate_all(self, Xval, Xtrain, swv, swt, cateFail) ==
    IF self.cate_preds_train_ = None \/ self.cate_preds_val_ = None
    THEN IF Xval = None \/ Xtrain = None THEN Ret(self, "CateMissingError", 0, 0)
         ELSE LET r == get_cate_preds(self, Xval, Xtrain, cateFail)
              IN  IF r.out # "ok" THEN r
                  ELSE Then(r, all_core(r.self, Xval, Xtrain, swv, swt))
    ELSE all_core(self, Xval, Xtrain, swv, swt)

(***************************************************************************)
(* The life cycle of one instance.                                         *)
(***************************************************************************)
NoCall == [op |-> "init", out |-> "ok", qv |-> 0, qt |-> 0, badw |-> FALSE, clean |-> TRUE]

CateCached(self) == self.cate_preds_train_ # None /\ self.cate_preds_val_ # None

\* where the CATE model's effect may raise, in a call that reaches get_cate_preds
CateFails(reached) == IF reached THEN {"none", "val", "train"} ELSE {"none"}

\* one call on the instance: its result, and the history the properties read
\* (last: the call and how it ended, and clean: no call has raised so far;
\* fitted: whether a fit_nuisance call ever returned)
Call(op, r, badw) ==
    /\ drt' = r.self
    /\ last' = [op |-> op, out |-> r.out, qv |-> r.qv, qt |-> r.qt, badw |-> badw,
                clean |-> (last.clean /\ r.out = "ok")]
    /\ fitted' = (fitted \/ (op = "fit_nuisance" /\ r.out = "ok"))
    /\ UNCHANGED <<shp, nuis, cvs, cal, wfit, robj, thr>>

Init ==
    /\ drt = FreshInstance
    /\ last = NoCall
    /\ fitted = FALSE
    /\ shp = Idle /\ nuis = Idle /\ cvs = Idle /\ cal = Idle
    /\ wfit = Idle /\ robj = Idle /\ thr = Idle

FitNuisance ==
    \E Xval \in 1..NSamples, Dlabels \in LabelSets,
       Xtrain \in TrainArgs, Dtrain \in TrainArgs, ytrain \in TrainArgs,
       nuisFail \in {"none", "cv", "train"} :
        Call("fit_nuisance",
             fit_nuisance(drt, Xval, Dlabels, Xtrain, Dtrain, ytrain, nuisFail),
             FALSE)

EvaluateBlp ==
    \E Xval \in SampleArgs, Xtrain \in TrainArgs,
       cateFail \in CateFails(drt.cate_preds_val_ = None) :
        Call("evaluate_blp", evaluate_blp(drt, Xval, Xtrain, cateFail), FALSE)

EvaluateCal ==
    \E Xval \in SampleArgs, Xtrain \in TrainArgs, swv \in WeightArgs, swt \in WeightArgs,
       cateFail \in CateFails(~CateCached(drt)) :
        Call("evaluate_cal", evaluate_cal(drt, Xval, Xtrain, swv, swt, cateFail),
             BadWeights(swv) \/ BadWeights(swt))

EvaluateUplift ==
    \E Xval \in SampleArgs, Xtrain \in TrainArgs, metric \in {"qini", "toc"},
       swv \in WeightArgs, swt \in WeightArgs, cateFail \in CateFails(~CateCached(drt)) :
        Call("evaluate_uplift",
             evaluate_uplift(drt, Xval, Xtrain, metric, swv, swt, cateFail),
             BadWeights(swv) \/ BadWeights(swt))

EvaluateAll ==
    \E Xval \in SampleArgs, Xtrain \in TrainArgs, swv \in WeightArgs, swt \in WeightArgs,
       cateFail \in CateFails(~CateCached(drt)) :
        Call("evaluate_all", evaluate_all(drt, Xval, Xtrain, swv, swt, cateFail),
             BadWeights(swv) \/ BadWeights(swt))

Next == FitNuisance \/ EvaluateBlp \/ EvaluateCal \/ EvaluateUplift \/ EvaluateAll

Spec == Init /\ [][Next]_vars

(***************************************************************************)
(* Properties of the life cycle.                                           *)
(***************************************************************************)
EvalOps == {"evaluate_blp", "evaluate_cal", "evaluate_uplift", "evaluate_all"}
WeightedOps == {"evaluate_cal", "evaluate_uplift", "evaluate_all"}
\* "Must fit nuisances before evaluating" and evaluate_cal's "Must fit nuisance
\* models on training sample data to use calibration test"
NuisanceErrors == {"NuisanceError", "TrainNuisanceError"}
NoResult(self) ==
    self.blp_res = None /\ self.cal_res = None /\ self.uplift_res = None /\ self.res = None
\* the cached state C2 lists
Cached(self) ==
    <<self.treatments, self.n_treat, self.dr_train_, self.dr_val_, self.ate_val,
      self.cate_preds_train_, self.cate_preds_val_,
      self.blp_res, self.cal_res, self.uplift_res, self.res>>

\* C1: an evaluate call on an instance on which fit_nuisance never completed
\* ends with the nuisance-precondition error and leaves no result.
C1_EvaluateBeforeFitRaisesNuisanceError ==
    (~fitted /\ last.op \in EvalOps) => (last.out \in NuisanceErrors /\ NoResult(drt))

\* C2: a call that fails leaves the cached state as it was before the call.
C2_FailedCallKeepsCachedState ==
    [][last'.out # "ok" => Cached(drt') = Cached(drt)]_vars

\* C3: evaluate_cal, evaluate_uplift and evaluate_all, given a weight that is
\* non-integer or below 1, fail with the weight assertion before any CATE
\* query of that call; stated of the calls that passed the precondition checks
\* and in which no model raised.
C3_BadWeightAssertedBeforeComputation ==
    (last.op \in WeightedOps /\ last.badw
       /\ last.out \notin (NuisanceErrors \cup {"CateMissingError", "ModelError"}))
    => (last.out = "AssertionError" /\ last.qv = 0 /\ last.qt = 0)

\* C5: once fit_nuisance has completed, CATE predictions are produced once and
\* reused: no call queries the CATE model on a sample whose predictions are
\* cached, and evaluate_all issues no query when both matrices are cached.
C5_CateQueriedAtMostOnce ==
    [][fitted =>
         /\ (last'.qv > 0 => drt.cate_preds_val_ = None)
         /\ (last'.qt > 0 => drt.cate_preds_train_ = None)
         /\ (last'.op = "evaluate_all" /\ CateCached(drt)
               => last'.qv = 0 /\ last'.qt = 0)]_vars

\* C16: after a fit_nuisance call has returned, training DR outcomes are cached
\* only if that call was given a full training sample; and whenever
\* evaluate_cal passes its training-sample precondition, the validation DR
\* outcomes come from a train/apply fit.
C16_TrainOutcomesOnlyFromLastFit ==
    /\ (last.op = "fit_nuisance" /\ last.out = "ok")
         => (drt.dr_train_ # None => drt.fit_on_train = Some(TRUE))
    /\ (last.op = "evaluate_cal" /\ last.out = "ok")
         => drt.dr_val_[1].mode = "train_apply"

\* C17: whenever an evaluate call has computed its statistic, the cached
\* validation CATE predictions were computed for the sample and the arms of
\* the cached validation DR outcomes.  The case taken is a history in which no
\* call raised.
C17_CatePredsMatchDrOutcomes ==
    (last.op \in EvalOps /\ last.clean) =>
        /\ drt.cate_preds_val_[1].sample = drt.dr_val_[1].sample
        /\ drt.cate_preds_val_[1].cols = drt.dr_val_[1].cols

(***************************************************************************)
(* SpecShape: get_cate_preds on a feature matrix of n rows.  An array is   *)
(* its shape, a sequence of dimensions.                                    *)
(***************************************************************************)
\* cate.effect(X, T0, T1): one value per row, with `extra` singleton dimensions
effect_shape(n, extra) == <<n>> \o [i \in 1..extra |-> 1]
\* np.stack of n_treat arrays of one shape
np_stack(n_treat, shape) == <<n_treat>> \o shape
\* ndarray.T reverses the axes
np_T(shape) == [i \in 1..Len(shape) |-> shape[Len(shape) + 1 - i]]
\* ndarray.squeeze() drops every axis of length 1
IsNotOne(d) == d # 1
np_squeeze(shape) == SelectSeq(shape, IsNotOne)
\* "standardize to always have 2 dimensions": arr[..., np.newaxis] when ndim == 1
standardize_2d(shape) == IF Len(shape) = 1 THEN shape \o <<1>> ELSE shape

cate_preds_shape(n, n_treat, extra) ==
    standardize_2d(np_squeeze(np_T(np_stack(n_treat, effect_shape(n, extra)))))

ShapeInit ==
    /\ shp \in [n : 1..MaxN, ntrain : {None} \cup {Some(m) : m \in 1..MaxN},
                n_treat : 1..MaxArms, extra : 0..MaxExtraDims,
                pc : {"call"}, cate_preds_val_ : {None}, cate_preds_train_ : {None}]
    /\ drt = Idle /\ last = Idle /\ fitted = Idle /\ nuis = Idle /\ cvs = Idle /\ cal = Idle
    /\ wfit = Idle /\ robj = Idle /\ thr = Idle

GetCatePreds ==
    /\ shp.pc = "call"
    /\ shp' = [shp EXCEPT
                 !.pc = "done",
                 !.cate_preds_val_ = Some(cate_preds_shape(shp.n, shp.n_treat, shp.extra)),
                 !.cate_preds_train_ =
                     IF shp.ntrain = None THEN None
                     ELSE Some(cate_preds_shape(shp.ntrain[1], shp.n_treat, shp.extra))]
    /\ UNCHANGED <<drt, last, fitted, nuis, cvs, cal, wfit, robj, thr>>

SpecShape == ShapeInit /\ [][GetCatePreds]_vars

\* C6: after get_cate_preds on n rows the cached matrix has shape (n, n_treat),
\* for the validation matrix and, when Xtrain is given, the training one.
C6_CatePredsShape ==
    shp.pc = "done" =>
        /\ shp.cate_preds_val_ = Some(<<shp.n, shp.n_treat>>)
        /\ shp.ntrain # None => shp.cate_preds_train_ = Some(<<shp.ntrain[1], shp.n_treat>>)

(***************************************************************************)
(* SpecNuis: the columns of the nuisance prediction matrices that one      *)
(* fit_nuisance call builds.  A matrix is the sequence of the treatment    *)
(* labels its columns were fitted for.                                     *)
(***************************************************************************)
Labels == 0..MaxLabel
LabelSubsets == {S \in SUBSET Labels : Cardinality(S) >= 2}

SetMin(S) == CHOOSE x \in S : \A y \in S : x <= y
RECURSIVE SortedSeq(_)
\* np.sort(np.unique(D))
SortedSeq(S) == IF S = {} THEN <<>> ELSE <<SetMin(S)>> \o SortedSeq(S \ {SetMin(S)})

\* the regression matrix: np.zeros((n, n_treat + 1)), column i predicted by the
\* model fitted on the rows with D == treatments[i]
reg_preds_cols(treatments) == [i \in 1..Len(treatments) |-> treatments[i]]
\* the propensity matrix: predict_proba's columns are the classes the
\* propensity model was fitted on, sorted
prop_preds_cols(D) == SortedSeq(D)
\* some arm of `treatments` has no row in D: the regression model is fitted on
\* an empty sample
EmptyArm(treatments, D) == \E i \in 1..Len(treatments) : treatments[i] \notin D

\* fit_nuisance up to its return: Dval and Dtrain are the label sets of the two
\* treatment vectors; emptyFitRaises: whether the regression model raises when
\* fitted on no rows
nuisance_matrices(Dval, Dtrain, emptyFitRaises) ==
    LET treatments == SortedSeq(Dval)
        none == [reg_val |-> None, prop_val |-> None,
                 reg_train |-> None, prop_train |-> None,
                 treatments |-> treatments, out |-> "ModelError"]
    IN  IF Dtrain # None
        THEN IF EmptyArm(treatments, Dtrain[1]) /\ emptyFitRaises THEN none
             ELSE IF Len(prop_preds_cols(Dtrain[1])) < Len(treatments)
             THEN [none EXCEPT !.out = "IndexError"]
             ELSE [reg_train |-> Some(reg_preds_cols(treatments)),
                   prop_train |-> Some(prop_preds_cols(Dtrain[1])),
                   reg_val |-> Some(reg_preds_cols(treatments)),
                   prop_val |-> Some(prop_preds_cols(Dtrain[1])),
                   treatments |-> treatments, out |-> "ok"]
        ELSE [reg_train |-> None, prop_train |-> None,
              reg_val |-> Some(reg_preds_cols(treatments)),
              prop_val |-> Some(prop_preds_cols(Dval)),
              treatments |-> treatments, out |-> "ok"]

NuisInit ==
    /\ nuis \in [Dval : LabelSubsets,
                 Dtrain : {None} \cup {Some(S) : S \in LabelSubsets},
                 pc : {"call"}, mats : {None}]
    /\ drt = Idle /\ last = Idle /\ fitted = Idle /\ shp = Idle /\ cvs = Idle /\ cal = Idle
    /\ wfit = Idle /\ robj = Idle /\ thr = Idle

FitNuisanceMatrices ==
    /\ nuis.pc = "call"
    /\ \E emptyFitRaises \in BOOLEAN :
          nuis' = [nuis EXCEPT
                     !.pc = "done",
                     !.mats = Some(nuisance_matrices(nuis.Dval, nuis.Dtrain, emptyFitRaises))]
    /\ UNCHANGED <<drt, last, fitted, shp, cvs, cal, wfit, robj, thr>>

SpecNuis == NuisInit /\ [][FitNuisanceMatrices]_vars

\* a matrix that was built has n_treat + 1 columns, column j for treatments[j]
ColumnsAre(m, treatments) == m = None \/ m[1] = treatments

\* C7: after fit_nuisance, in either mode and for any label sets, every
\* regression and propensity matrix has n_treat + 1 columns, column j belonging
\* to treatments[j], the sorted unique values of Dval; stated of the calls in
\* which every arm of Dval has training rows (no model is fitted on no rows).
C7_NuisanceColumnsFollowTreatments ==
    (nuis.pc = "done" /\ nuis.mats[1].out = "ok"
       /\ (nuis.Dtrain # None => ~EmptyArm(SortedSeq(nuis.Dval), nuis.Dtrain[1]))) =>
        LET m == nuis.mats[1]
        IN  /\ ColumnsAre(m.reg_val, SortedSeq(nuis.Dval))
            /\ ColumnsAre(m.prop_val, SortedSeq(nuis.Dval))
            /\ ColumnsAre(m.reg_train, SortedSeq(nuis.Dval))
            /\ ColumnsAre(m.prop_train, SortedSeq(nuis.Dval))

(***************************************************************************)
(* SpecCV: fit_nuisance_cv on a sample of CvRows rows with treatment       *)
(* vector D.  cv is an integer fold count or an explicit list of           *)
(* (train, test) index pairs; the explicit lists of the model have two     *)
(* pairs.  By the symmetry of the rows D is taken non-decreasing.          *)
(***************************************************************************)
Rows == 1..CvRows
Arms == {0, 1}
TreatmentVectors == {D \in [Rows -> Arms] : \A r \in 1..(CvRows - 1) : D[r] <= D[r + 1]}
Range(f) == {f[x] : x \in DOMAIN f}
IndexPairs == [train : SUBSET Rows, test : SUBSET Rows]

\* check_cv of an integer: a (Stratified)KFold, shuffled with the seed; it
\* yields, for some assignment `fold` of the rows to n_splits non-empty folds,
\* each fold as the test indices and the other rows as the train indices
KFoldSplits(n_splits, fold) ==
    [i \in 1..n_splits |->
        [train |-> {r \in Rows : fold[r] # i}, test |-> {r \in Rows : fold[r] = i}]]
FoldAssignments(n_splits) ==
    {fold \in [Rows -> 1..n_splits] : \A i \in 1..n_splits : \E r \in Rows : fold[r] = i}

\* the cv configurations: an integer, with the folds the splitter draws, or a list
CvConfigs ==
    UNION {{[kind |-> "int", splits |-> KFoldSplits(k, fold)] : fold \in FoldAssignments(k)} :
              k \in 2..CvRows}
    \cup {[kind |-> "list", splits |-> <<p, q>>] : p \in IndexPairs, q \in IndexPairs}

\* get_cv_splits: list(self.cv_splitter.split(to_split, T))
get_cv_splits(cv) == cv.splits

\* cross_val_predict accepts the splits only when the test indices of all the
\* folds together are a permutation of the rows
IsPartition(splits) ==
    \A r \in Rows : Cardinality({i \in DOMAIN splits : r \in splits[i].test}) = 1

\* X[train][D[train] == self.treatments[k]]: the rows the regression model of
\* arm `label` is fitted on in one fold
RegFitRowsNoFold(train, D, label) == {r \in Rows : D[r] = label}
RegFitRows(train, D, label) == {r \in train : D[r] = label}

\* reg_preds[test, k] = model_regression_fitted.predict(X[test]), fold after
\* fold: the entry of row r keeps the model of the last fold that tests r, and
\* is the np.zeros entry (None) when no fold does
RECURSIVE RegSource(_, _, _, _, _)
RegSource(splits, i, D, label, r) ==
    IF i = 0 THEN None
    ELSE IF r \in splits[i].test THEN Some(RegFitRows(splits[i].train, D, label))
    ELSE RegSource(splits, i - 1, D, label, r)

\* some fold fits the regression model of some arm on no rows
EmptyFit(splits, D, treatments) ==
    \E i \in DOMAIN splits, k \in DOMAIN treatments :
        RegFitRows(splits[i].train, D, treatments[k]) = {}

fit_nuisance_cv(D, cv, emptyFitRaises) ==
    LET treatments == SortedSeq(Range(D))
        splits == get_cv_splits(cv)
    IN  IF ~IsPartition(splits)
        THEN [out |-> "ValueError", treatments |-> treatments, reg_preds |-> None]
        ELSE IF EmptyFit(splits, D, treatments) /\ emptyFitRaises
        THEN [out |-> "ModelError", treatments |-> treatments, reg_preds |-> None]
        ELSE [out |-> "ok", treatments |-> treatments,
              reg_preds |-> Some([r \in Rows |-> [k \in DOMAIN treatments |->
                  RegSource(splits, Len(splits), D, treatments[k], r)]])]

CvInit ==
    /\ cvs \in [D : TreatmentVectors, cv : CvConfigs, pc : {"call"}, res : {None}]
    /\ drt = Idle /\ last = Idle /\ fitted = Idle /\ shp = Idle /\ nuis = Idle /\ cal = Idle
    /\ wfit = Idle /\ robj = Idle /\ thr = Idle

FitNuisanceCv ==
    /\ cvs.pc = "call"
    /\ \E emptyFitRaises \in BOOLEAN :
          cvs' = [cvs EXCEPT !.pc = "done",
                             !.res = Some(fit_nuisance_cv(cvs.D, cvs.cv, emptyFitRaises))]
    /\ UNCHANGED <<drt, last, fitted, shp, nuis, cal, wfit, robj, thr>>

SpecCV == CvInit /\ [][FitNuisanceCv]_vars

\* every row has, for every arm, a prediction of a model fitted only on rows of
\* that arm other than the row itself
OutOfFold(D, res) ==
    \A r \in Rows : \A k \in DOMAIN res.treatments :
        /\ res.reg_preds[1][r][k] # None
        /\ r \notin res.reg_preds[1][r][k][1]
        /\ \A x \in res.reg_preds[1][r][k][1] : D[x] = res.treatments[k]

TrainTestDisjoint(cv) == \A i \in DOMAIN cv.splits : cv.splits[i].train \cap cv.splits[i].test = {}

\* C4 as claimed: for every cv configuration that is accepted, the regression
\* predictions are out of fold.
C4_CrossFitOutOfFold_Claimed ==
    (cvs.pc = "done" /\ cvs.res[1].out = "ok") => OutOfFold(cvs.D, cvs.res[1])

\* C4 as amended: the regression predictions are out of fold for an integer cv,
\* and for an explicit list whose pairs each keep their test indices out of
\* their train indices.
C4_CrossFitOutOfFold ==
    (cvs.pc = "done" /\ cvs.res[1].out = "ok" /\ TrainTestDisjoint(cvs.cv))
    => OutOfFold(cvs.D, cvs.res[1])

\* an accepted explicit list, disjoint pair by pair, with both arms fitted on
\* some rows for some prediction
C4_Witness ==
    /\ cvs.pc = "done" /\ cvs.res[1].out = "ok"
    /\ cvs.cv.kind = "list" /\ TrainTestDisjoint(cvs.cv)
    /\ Len(cvs.res[1].treatments) = 2
    /\ \E r \in Rows : \A k \in 1..2 : cvs.res[1].reg_preds[1][r][k] \notin {None, Some({})}

(***************************************************************************)
(* SpecFit: the model fits one fit_nuisance call makes on the sample it    *)
(* fits (the validation sample in cross-fit mode, the training sample in   *)
(* train/apply mode), in the order of the code.  A fit is the model, the   *)
(* rows it is given and its sample_weight argument: None when the call     *)
(* passes none, else the weight of each row given.                         *)
(***************************************************************************)
ModelFit(model, rows, sample_weight) ==
    [model |-> model, rows |-> rows, sample_weight |-> sample_weight]

\* if sampleweight is None: sampleweight = np.ones(X.shape[0])
default_weights(sampleweight) ==
    IF sampleweight = None THEN [r \in Rows |-> 1] ELSE sampleweight[1]

\* sampleweight[rows]
weights_of(sampleweight, rows) == [r \in rows |-> sampleweight[r]]

\* cross_val_predict(self.model_propensity, X, D, cv=splits,
\* method='predict_proba'): one fit per fold on its train rows, and no fit
\* parameter is handed on
cv_propensity_fits(splits) ==
    [i \in 1..Len(splits) |-> ModelFit("propensity", splits[i].train, None)]

\* the loop over the arms k and, inside, over the folds
cv_regression_fits(splits, D, treatments, sampleweight) ==
    [j \in 1..(Len(treatments) * Len(splits)) |->
        LET k == ((j - 1) \div Len(splits)) + 1
            i == ((j - 1) % Len(splits)) + 1
            rows == RegFitRows(splits[i].train, D, treatments[k])
        IN  ModelFit("regression", rows, Some(weights_of(sampleweight, rows)))]

\* self.model_propensity_.fit(Xtrain, Dtrain, sample_weight=sampleweighttrain)
train_propensity_fits(sampleweight) ==
    <<ModelFit("propensity", Rows, Some(weights_of(sampleweight, Rows)))>>

\* the loop over the arms of fit_nuisance_train
train_regression_fits(D, treatments, sampleweight) ==
    [k \in 1..Len(treatments) |->
        LET rows == {r \in Rows : D[r] = treatments[k]}
        IN  ModelFit("regression", rows, Some(weights_of(sampleweight, rows)))]

\* the fits up to the first one that raises: a regression fit on no rows, when
\* the model raises on it
FitsUntilRaise(fits, emptyFitRaises) ==
    LET bad == {j \in DOMAIN fits : fits[j].model = "regression" /\ fits[j].rows = {}}
    IN  IF emptyFitRaises /\ bad # {}
        THEN SubSeq(fits, 1, CHOOSE j \in bad : \A x \in bad : j <= x)
        ELSE fits

\* fit_nuisance: fit_nuisance_cv on the sample and, in train/apply mode,
\* fit_nuisance_train after it
fit_nuisance_fits(fit_on_train, D, splits, sampleweightArg, emptyFitRaises) ==
    LET treatments == SortedSeq(Range(D))
        sampleweight == default_weights(sampleweightArg)
        cvFits == cv_propensity_fits(splits)
                    \o cv_regression_fits(splits, D, treatments, sampleweight)
        trainFits == train_propensity_fits(sampleweight)
                       \o train_regression_fits(D, treatments, sampleweight)
    IN  FitsUntilRaise(IF fit_on_train THEN cvFits \o trainFits ELSE cvFits, emptyFitRaises)

SampleWeightArgs == {None} \cup {Some(w) : w \in [Rows -> 1..MaxWeight]}

FitInit ==
    /\ wfit \in [fit_on_train : BOOLEAN, D : TreatmentVectors,
                 splits : UNION {{KFoldSplits(k, fold) : fold \in FoldAssignments(k)} :
                                    k \in 2..CvRows},
                 sampleweight : SampleWeightArgs, pc : {"call"}, fits : {<<>>}]
    /\ drt = Idle /\ last = Idle /\ fitted = Idle /\ shp = Idle /\ nuis = Idle
    /\ cvs = Idle /\ cal = Idle /\ robj = Idle /\ thr = Idle

FitNuisanceModels ==
    /\ wfit.pc = "call"
    /\ \E emptyFitRaises \in BOOLEAN :
          wfit' = [wfit EXCEPT
                     !.pc = "done",
                     !.fits = fit_nuisance_fits(wfit.fit_on_train, wfit.D, wfit.splits,
                                                wfit.sampleweight, emptyFitRaises)]
    /\ UNCHANGED <<drt, last, fitted, shp, nuis, cvs, cal, robj, thr>>

SpecFit == FitInit /\ [][FitNuisanceModels]_vars

\* C11: every fit of the regression or the propensity model, in either mode, is
\* given the weights of exactly its rows, the supplied ones or 1 for each row
\* when none were supplied; a fit given no weights counts as given weights of 1.
C11_FitsGetWeightsOfTheirRows ==
    wfit.pc = "done" =>
        \A j \in DOMAIN wfit.fits :
            LET f == wfit.fits[j]
                w == weights_of(default_weights(wfit.sampleweight), f.rows)
            IN  \/ f.sample_weight = Some(w)
                \/ f.sample_weight = None /\ \A r \in f.rows : w[r] = 1

(***************************************************************************)
(* SpecRes: the objects the evaluate calls construct.  The heap is the     *)
(* sequence of the objects allocated so far, an object's identity is its   *)
(* index, and an attribute of the instance holds an identity or NoRef.     *)
(* The calls are those that reach the construction of their result         *)
(* (nuisances fitted, CATE predictions available).  A result class keeps   *)
(* the references it is constructed with.                                  *)
(***************************************************************************)
NoRef == 0
ndarray(value) == [class |-> "ndarray", value |-> value]
BLPEvaluationResults(treatments) ==
    [class |-> "BLPEvaluationResults", treatments |-> treatments]
CalibrationEvaluationResults(treatments) ==
    [class |-> "CalibrationEvaluationResults", treatments |-> treatments]
UpliftEvaluationResults(metric, treatments) ==
    [class |-> "UpliftEvaluationResults", metric |-> metric, treatments |-> treatments]
EvaluationResults(blp_res, cal_res, qini_res, toc_res) ==
    [class |-> "EvaluationResults", blp_res |-> blp_res, cal_res |-> cal_res,
     qini_res |-> qini_res, toc_res |-> toc_res]

\* self.attr = <a newly constructed object>: the object is allocated and the
\* attribute is bound to it
bind_reusing(h, attr, obj) ==
    IF h.self[attr] # NoRef
    THEN [h EXCEPT !.heap[h.self[attr]] = obj]
    ELSE [heap |-> Append(h.heap, obj), self |-> [h.self EXCEPT ![attr] = Len(h.heap) + 1]]
bind_new(h, attr, obj) ==
    [heap |-> Append(h.heap, obj), self |-> [h.self EXCEPT ![attr] = Len(h.heap) + 1]]

\* self.treatments = np.sort(np.unique(Dval))
fit_nuisance_obj(h, labels) == bind_new(h, "treatments", ndarray(labels))
evaluate_blp_obj(h) == bind_new(h, "blp_res", BLPEvaluationResults(h.self.treatments))
evaluate_cal_obj(h) ==
    bind_new(h, "cal_res", CalibrationEvaluationResults(h.self.treatments))
evaluate_uplift_obj(h, metric) ==
    bind_new(h, "uplift_res", UpliftEvaluationResults(metric, h.self.treatments))
\* each test returns the attribute it has just bound
evaluate_all_obj(h) ==
    LET b == evaluate_blp_obj(h)
        c == evaluate_cal_obj(b)
        q == evaluate_uplift_obj(c, "qini")
        t == evaluate_uplift_obj(q, "toc")
    IN  bind_new(t, "res", EvaluationResults(b.self.blp_res, c.self.cal_res,
                                             q.self.uplift_res, t.self.uplift_res))

ResInit ==
    /\ robj = [heap |-> <<>>,
               self |-> [treatments |-> NoRef, blp_res |-> NoRef, cal_res |-> NoRef,
                         uplift_res |-> NoRef, res |-> NoRef]]
    /\ drt = Idle /\ last = Idle /\ fitted = Idle /\ shp = Idle /\ nuis = Idle
    /\ cvs = Idle /\ cal = Idle /\ wfit = Idle /\ thr = Idle

\* a call that allocates n objects runs while the heap has room for them
ResCall(n, h) ==
    /\ Len(robj.heap) + n <= MaxObjects
    /\ robj' = h
    /\ UNCHANGED <<drt, last, fitted, shp, nuis, cvs, cal, wfit, thr>>

ResFitNuisance == \E labels \in LabelSets : ResCall(1, fit_nuisance_obj(robj, labels))
ResEvaluateBlp == robj.self.treatments # NoRef /\ ResCall(1, evaluate_blp_obj(robj))
ResEvaluateCal == robj.self.treatments # NoRef /\ ResCall(1, evaluate_cal_obj(robj))
ResEvaluateUplift ==
    /\ robj.self.treatments # NoRef
    /\ \E metric \in {"qini", "toc"} : ResCall(1, evaluate_uplift_obj(robj, metric))
ResEvaluateAll == robj.self.treatments # NoRef /\ ResCall(5, evaluate_all_obj(robj))

ResNext ==
    ResFitNuisance \/ ResEvaluateBlp \/ ResEvaluateCal \/ ResEvaluateUplift \/ ResEvaluateAll

SpecRes == ResInit /\ [][ResNext]_vars

\* C12: no call changes an object that exists (a result returned earlier, or an
\* array a result refers to): a call only allocates objects and rebinds the
\* attributes of the instance; and in the report of evaluate_all the qini
\* result is a qini result, the toc result a toc result.
C12_ResultObjectsNeverChange ==
    [][/\ \A id \in 1..Len(robj.heap) : robj'.heap[id] = robj.heap[id]
       /\ robj'.self.res # NoRef =>
            LET report == robj'.heap[robj'.self.res]
            IN  /\ robj'.heap[report.qini_res].metric = "qini"
                /\ robj'.heap[report.toc_res].metric = "toc"
                /\ robj'.heap[report.blp_res].class = "BLPEvaluationResults"
                /\ robj'.heap[report.cal_res].class = "CalibrationEvaluationResults"]_vars

\* evaluate_all has run on an instance that held an uplift result already: the
\* earlier result is still on the heap, uplift_res is the toc result of the
\* report, and the report's qini result is another object
C12_Witness ==
    /\ robj.self.res # NoRef
    /\ robj.self.uplift_res = robj.heap[robj.self.res].toc_res
    /\ robj.heap[robj.self.res].qini_res # robj.self.uplift_res
    /\ \E id \in 1..Len(robj.heap) :
          /\ robj.heap[id].class = "UpliftEvaluationResults"
          /\ id < robj.heap[robj.self.res].blp_res

(***************************************************************************)
(* SpecThr: threads that each call evaluate_blp(Xval, Xtrain) or           *)
(* evaluate_uplift(Xval, Xtrain) (evaluate_cal and evaluate_all populate   *)
(* the cache the same way) on one fitted instance whose CATE predictions   *)
(* are not cached.  The code takes no lock, so the threads interleave      *)
(* between the statements of the check and of get_cate_preds.  A cached    *)
(* matrix is modelled by its number of dimensions, 0 when the attribute    *)
(* is not set.                                                             *)
(***************************************************************************)
Threads == 1..NThreads
\* an evaluate_blp call with or without Xtrain, or an evaluate_uplift call
ThreadCalls ==
    {[op |-> "evaluate_blp", xtrain |-> FALSE], [op |-> "evaluate_blp", xtrain |-> TRUE],
     [op |-> "evaluate_uplift", xtrain |-> TRUE]}

\* np.stack(vals).T.squeeze(): 1-D for a single arm, 2-D otherwise
squeezed_ndim(one_arm) == IF one_arm THEN 1 ELSE 2

\* the lazy check: evaluate_blp wants cate_preds_val_, the others both matrices
cache_missing(op, cache) ==
    IF op = "evaluate_blp" THEN cache.val = 0 ELSE cache.train = 0 \/ cache.val = 0

\* the statement after the validation matrix is in place
after_val(call) == IF call.xtrain THEN "stack_train" ELSE "use"

\* some other thread is inside get_cate_preds between its write of the
\* validation matrix and its write of the training matrix
Populating(t) ==
    \E u \in Threads \ {t} :
        thr.t[u].call.xtrain /\ thr.t[u].pc \in {"test_val", "expand_val", "stack_train"}

ThrInit ==
    /\ thr \in [cache : {[val |-> 0, train |-> 0]}, one_arm : BOOLEAN,
                t : [Threads -> [call : ThreadCalls, pc : {"check"},
                                 seen : {None}, read : {None}]]]
    /\ drt = Idle /\ last = Idle /\ fitted = Idle /\ shp = Idle /\ nuis = Idle
    /\ cvs = Idle /\ cal = Idle /\ wfit = Idle /\ robj = Idle

ThrStep(t, pc, next, cache, seen, read) ==
    /\ thr.t[t].pc = pc
    /\ thr' = [thr EXCEPT !.cache = cache,
                          !.t[t] = [call |-> thr.t[t].call, pc |-> next,
                                    seen |-> seen, read |-> read]]
    /\ UNCHANGED <<drt, last, fitted, shp, nuis, cvs, cal, wfit, robj>>

\* if not hasattr(self, 'cate_preds_val_') ...: self.get_cate_preds(Xval, Xtrain)
ThrCheck(t) ==
    ThrStep(t, "check",
            IF cache_missing(thr.t[t].call.op, thr.cache) THEN "stack_val" ELSE "use",
            thr.cache,
            Some([val |-> thr.cache.val, train |-> thr.cache.train,
                  partial |-> thr.cache.val # 0 /\ thr.cache.train = 0 /\ Populating(t)]),
            thr.t[t].read)

\* self.cate_preds_val_ = np.stack(vals).T.squeeze()
ThrStackVal(t) ==
    ThrStep(t, "stack_val", "test_val", [thr.cache EXCEPT !.val = squeezed_ndim(thr.one_arm)],
            thr.t[t].seen, thr.t[t].read)

\* if self.cate_preds_val_.ndim == 1:
ThrTestVal(t) ==
    ThrStep(t, "test_val",
            IF thr.cache.val = 1 THEN "expand_val" ELSE after_val(thr.t[t].call),
            thr.cache, thr.t[t].seen, thr.t[t].read)

\* self.cate_preds_val_ = self.cate_preds_val_[..., np.newaxis]
ThrExpandVal(t) ==
    ThrStep(t, "expand_val", after_val(thr.t[t].call),
            [thr.cache EXCEPT !.val = thr.cache.val + 1], thr.t[t].seen, thr.t[t].read)

\* self.cate_preds_train_ = np.stack(trains).T.squeeze()
ThrStackTrain(t) ==
    ThrStep(t, "stack_train", "test_train",
            [thr.cache EXCEPT !.train = squeezed_ndim(thr.one_arm)],
            thr.t[t].seen, thr.t[t].read)

\* if self.cate_preds_train_.ndim == 1:
ThrTestTrain(t) ==
    ThrStep(t, "test_train", IF thr.cache.train = 1 THEN "expand_train" ELSE "use",
            thr.cache, thr.t[t].seen, thr.t[t].read)

\* self.cate_preds_train_ = self.cate_preds_train_[..., np.newaxis]
ThrExpandTrain(t) ==
    ThrStep(t, "expand_train", "use",
            [thr.cache EXCEPT !.train = thr.cache.train + 1], thr.t[t].seen, thr.t[t].read)

\* the test reads the cached matrices: self.cate_preds_val_[:, k] and, outside
\* evaluate_blp, self.cate_preds_train_[:, k]
ThrUse(t) ==
    ThrStep(t, "use", "done", thr.cache, thr.t[t].seen,
            Some([val |-> thr.cache.val, train |-> thr.cache.train]))

ThrNext ==
    \E t \in Threads :
        \/ ThrCheck(t) \/ ThrStackVal(t) \/ ThrTestVal(t) \/ ThrExpandVal(t)
        \/ ThrStackTrain(t) \/ ThrTestTrain(t) \/ ThrExpandTrain(t) \/ ThrUse(t)

SpecThr == ThrInit /\ [][ThrNext]_vars

\* C15: concurrent evaluate calls do not race on the lazy initialization: the
\* check of a call never finds the cache half-way (a validation matrix that is
\* not 2-D, or validation predictions in place while another call has yet to
\* store the training ones), a test only reads 2-D matrices, and when all the
\* calls are done the cache is what one get_cate_preds call leaves.
C15_NoRaceOnLazyCatePreds ==
    /\ \A t \in Threads :
         /\ thr.t[t].seen # None =>
              thr.t[t].seen[1].val \in {0, 2} /\ ~thr.t[t].seen[1].partial
         /\ thr.t[t].read # None =>
              /\ thr.t[t].read[1].val = 2
              /\ thr.t[t].call.op # "evaluate_blp" => thr.t[t].read[1].train = 2
    /\ (\A t \in Threads : thr.t[t].pc = "done") =>
         thr.cache.val = 2 /\ thr.cache.train \in {0, 2}

(***************************************************************************)
(* Exact arithmetic.  A rational is <<numerator, denominator>> with a      *)
(* positive denominator; a float is a finite rational, nan or -inf (what   *)
(* numpy's division by zero yields: a warning, not an exception).          *)
(***************************************************************************)
Abs(x) == IF x < 0 THEN -x ELSE x
Zero == <<0, 1>>
RAdd(a, b) == <<a[1] * b[2] + b[1] * a[2], a[2] * b[2]>>
RSub(a, b) == <<a[1] * b[2] - b[1] * a[2], a[2] * b[2]>>
RMul(a, b) == <<a[1] * b[1], a[2] * b[2]>>
RAbs(a) == <<Abs(a[1]), a[2]>>
REq(a, b) == a[1] * b[2] = b[1] * a[2]
RLt(a, b) == a[1] * b[2] < b[1] * a[2]
RLe(a, b) == a[1] * b[2] <= b[1] * a[2]
Finite(q) == [kind |-> "finite", v |-> q]
NaN == [kind |-> "nan", v |-> Zero]
NegInf == [kind |-> "-inf", v |-> Zero]

RECURSIVE SumOver(_, _)
\* the sum of f[u] over the units u of S
SumOver(f, S) ==
    IF S = {} THEN 0
    ELSE LET u == CHOOSE x \in S : TRUE IN f[u] + SumOver(f, S \ {u})

RECURSIVE RSumSeq(_, _)
\* np.sum of the first n entries of a sequence of rationals
RSumSeq(a, n) == IF n = 0 THEN Zero ELSE RAdd(RSumSeq(a, n - 1), a[n])

\* np.average(values[ind], weights=weights[ind]), ind not empty
np_average(values, weights, ind) ==
    <<SumOver([u \in DOMAIN values |-> weights[u] * values[u]], ind), SumOver(weights, ind)>>

(***************************************************************************)
(* weighted_stat(values, q, sample_weight, mode='quantile')                *)
(* (econml/validate/weighted_utils.py): the quantiles of the sample in     *)
(* which each value is repeated weight times, interpolated linearly.       *)
(***************************************************************************)
\* the j-th smallest value (j from 0) of the weight-expanded sample
OrderStat(values, weights, j) ==
    CHOOSE v \in Range(values) :
        /\ SumOver(weights, {u \in DOMAIN values : values[u] <= v}) >= j + 1
        /\ SumOver(weights, {u \in DOMAIN values : values[u] < v}) <= j
\* the quantiles at the levels np.linspace(0, 1, n_groups + 1)
weighted_stat(values, weights, n_groups) ==
    LET N == SumOver(weights, DOMAIN values)
    IN  [i \in 1..(n_groups + 1) |->
            LET h == (N - 1) * (i - 1)
                lo == h \div n_groups
                rem == h % n_groups
            IN  IF rem = 0 THEN <<OrderStat(values, weights, lo), 1>>
                ELSE <<OrderStat(values, weights, lo) * n_groups
                         + rem * (OrderStat(values, weights, lo + 1)
                                    - OrderStat(values, weights, lo)),
                       n_groups>>]

(***************************************************************************)
(* evaluate_cal, the body of its loop over the arms, for one arm k.        *)
(***************************************************************************)
\* the validation units of group i: [cuts[i], cuts[i+1]), closed for the last
group_ind(cate_preds_val, cuts, i, n_groups) ==
    {u \in DOMAIN cate_preds_val :
        /\ RLe(cuts[i], <<cate_preds_val[u], 1>>)
        /\ IF i < n_groups THEN RLt(<<cate_preds_val[u], 1>>, cuts[i + 1])
           ELSE RLe(<<cate_preds_val[u], 1>>, cuts[i + 1])}

\* probs[i] = w_tot_inds / w_tot
group_prob(weights, ind) == <<SumOver(weights, ind), SumOver(weights, DOMAIN weights)>>
\* gate[i]: the weighted average of the DR outcomes of the group
group_gate(dr_val, weights, ind) == np_average(dr_val, weights, ind)
\* g_cate[i]: the weighted average of the CATE predictions of the group
group_g_cate_unweighted(cate_preds_val, weights, ind) ==
    <<SumOver(cate_preds_val, ind), Cardinality(ind)>>
group_g_cate(cate_preds_val, weights, ind) == np_average(cate_preds_val, weights, ind)

\* np.sum(abs(a - b) * probs)
cal_score_signed(a, b, probs) ==
    RSumSeq([i \in DOMAIN probs |-> RMul(RSub(a[i], b[i]), probs[i])], Len(probs))
cal_score(a, b, probs) ==
    RSumSeq([i \in DOMAIN probs |-> RMul(RAbs(RSub(a[i], b[i])), probs[i])], Len(probs))

\* 1 - (cal_score_g / cal_score_o), in floats
cal_r_squared(cal_score_g, cal_score_o) ==
    IF cal_score_o[1] = 0
    THEN IF cal_score_g[1] = 0 THEN NaN ELSE NegInf
    ELSE Finite(RSub(<<1, 1>>, <<cal_score_g[1] * cal_score_o[2],
                                cal_score_g[2] * cal_score_o[1]>>))

\* self.ate_val[k]: np.average(self.dr_val_, axis=0, weights=sampleweightval),
\* with the validation weights fit_nuisance was given
ate_val(dr_val, fitweights) == np_average(dr_val, fitweights, DOMAIN dr_val)

evaluate_cal_arm(cate_preds_train, sampleweighttrain, cate_preds_val, dr_val, sampleweightval, ate, n_groups) ==
    LET cuts == weighted_stat(cate_preds_train, sampleweighttrain, n_groups)
        ind == [i \in 1..n_groups |-> group_ind(cate_preds_val, cuts, i, n_groups)]
        \* the arrays start as np.zeros; a group without units is skipped
        probs == [i \in 1..n_groups |->
                    IF ind[i] = {} THEN Zero ELSE group_prob(sampleweightval, ind[i])]
        gate == [i \in 1..n_groups |->
                    IF ind[i] = {} THEN Zero ELSE group_gate(dr_val, sampleweightval, ind[i])]
        g_cate == [i \in 1..n_groups |->
                    IF ind[i] = {} THEN Zero
                    ELSE group_g_cate(cate_preds_val, sampleweightval, ind[i])]
        \* weighted_se is applied to the units of the group, or the entry stays 0
        se_gate == [i \in 1..n_groups |-> IF ind[i] = {} THEN None ELSE Some(ind[i])]
        se_g_cate == [i \in 1..n_groups |-> IF ind[i] = {} THEN None ELSE Some(ind[i])]
        cal_score_g == cal_score(gate, g_cate, probs)
        cal_score_o == cal_score(gate, [i \in 1..n_groups |-> ate], probs)
    IN  [cuts |-> cuts, ind |-> ind, probs |-> probs, gate |-> gate, g_cate |-> g_cate,
         se_gate |-> se_gate, se_g_cate |-> se_g_cate,
         cal_score_g |-> cal_score_g, cal_score_o |-> cal_score_o,
         cal_r_squared |-> cal_r_squared(cal_score_g, cal_score_o)]

Units == 1..CalRows
ValueVectors == [Units -> 0..MaxVal]
\* integer weights >= 1, which pass the assertion; a weight argument left at
\* None is the vector of ones
WeightVectors == [Units -> 1..MaxWeight]

CalInit ==
    /\ cal \in [cate_preds_train : ValueVectors, sampleweighttrain : WeightVectors,
                cate_preds_val : ValueVectors, dr_val : ValueVectors,
                sampleweightval : WeightVectors, fitweights : WeightVectors,
                n_groups : 1..MaxGroups, pc : {"call"}, res : {None}]
    /\ drt = Idle /\ last = Idle /\ fitted = Idle /\ shp = Idle /\ nuis = Idle /\ cvs = Idle
    /\ wfit = Idle /\ robj = Idle /\ thr = Idle

EvaluateCalArm ==
    /\ cal.pc = "call"
    /\ cal' = [cal EXCEPT
                 !.pc = "done",
                 !.res = Some(evaluate_cal_arm(cal.cate_preds_train, cal.sampleweighttrain,
                                               cal.cate_preds_val, cal.dr_val,
                                               cal.sampleweightval,
                                               ate_val(cal.dr_val, cal.fitweights),
                                               cal.n_groups))]
    /\ UNCHANGED <<drt, last, fitted, shp, nuis, cvs, wfit, robj, thr>>

SpecCal == CalInit /\ [][EvaluateCalArm]_vars

(***************************************************************************)
(* Properties of the calibration score.  They restate the sums over the    *)
(* groups in integers: with w_tot the total validation weight, S_i, C_i    *)
(* and W_i the weighted sums of the DR outcomes, of the CATE predictions   *)
(* and of 1 over group i, and ATE = an/ad,                                 *)
(*   Cal_G = (sum_i |S_i - C_i|) / w_tot                                   *)
(*   Cal_O = (sum_i |S_i ad - W_i an|) / (w_tot ad).                       *)
(***************************************************************************)
GroupS(i) == SumOver([u \in Units |-> cal.sampleweightval[u] * cal.dr_val[u]], cal.res[1].ind[i])
GroupC(i) ==
    SumOver([u \in Units |-> cal.sampleweightval[u] * cal.cate_preds_val[u]], cal.res[1].ind[i])
GroupW(i) == SumOver(cal.sampleweightval, cal.res[1].ind[i])
AteNum == SumOver([u \in Units |-> cal.fitweights[u] * cal.dr_val[u]], Units)
AteDen == SumOver(cal.fitweights, Units)
CalGNum == SumOver([i \in 1..cal.n_groups |-> Abs(GroupS(i) - GroupC(i))], 1..cal.n_groups)
CalONum ==
    SumOver([i \in 1..cal.n_groups |-> Abs(GroupS(i) * AteDen - GroupW(i) * AteNum)],
            1..cal.n_groups)
WTot == SumOver(cal.sampleweightval, Units)

PerfectFit == \A u \in Units : cal.cate_preds_val[u] = cal.dr_val[u]

\* C9 as claimed: when the validation CATE predictions equal the DR outcomes
\* unit by unit, Cal_G = 0 and the score is 1.
C9_PerfectFitScoresOne_Claimed ==
    (cal.pc = "done" /\ PerfectFit) =>
        /\ REq(cal.res[1].cal_score_g, Zero)
        /\ cal.res[1].cal_r_squared.kind = "finite"
        /\ REq(cal.res[1].cal_r_squared.v, <<1, 1>>)

\* C9 as amended: Cal_G = 0; the score is 1 when Cal_O is not 0, and nan (0/0)
\* when Cal_O = 0.
C9_PerfectFitScoresOne ==
    (cal.pc = "done" /\ PerfectFit) =>
        /\ REq(cal.res[1].cal_score_g, Zero)
        /\ ~REq(cal.res[1].cal_score_o, Zero) =>
              /\ cal.res[1].cal_r_squared.kind = "finite"
              /\ REq(cal.res[1].cal_r_squared.v, <<1, 1>>)
        /\ REq(cal.res[1].cal_score_o, Zero) => cal.res[1].cal_r_squared = NaN

\* a perfect fit of unequal values under unequal weights, scored 1
C9_Witness ==
    /\ cal.pc = "done" /\ PerfectFit
    /\ \E u, v \in Units :
          /\ cal.dr_val[u] # cal.dr_val[v]
          /\ cal.sampleweightval[u] # cal.sampleweightval[v]
          /\ \E i \in 1..cal.n_groups : {u, v} \subseteq cal.res[1].ind[i]
    /\ cal.res[1].cal_r_squared.kind = "finite"
    /\ REq(cal.res[1].cal_r_squared.v, <<1, 1>>)

ConstantPreds ==
    \E c \in 0..MaxVal :
        /\ \A u \in Units : cal.cate_preds_train[u] = c
        /\ \A u \in Units : cal.cate_preds_val[u] = c

\* C10: when the CATE predictions are one constant over the training and the
\* validation units, the score is approximately 0 (within 1/10).  The case
\* taken is the ordinary one: the DR outcomes of the validation units are not
\* all equal, and evaluate_cal is given the validation weights fit_nuisance
\* was given.
C10_ConstantPredsScoreZero ==
    (/\ cal.pc = "done" /\ ConstantPreds
     /\ \E u, v \in Units : cal.dr_val[u] # cal.dr_val[v]
     /\ cal.fitweights = cal.sampleweightval) =>
        /\ cal.res[1].cal_r_squared.kind = "finite"
        /\ RLe(RAbs(cal.res[1].cal_r_squared.v), <<1, 10>>)

\* the documentation's overall error: sum_k pi(k) |E[s(Z)|k] - E[Y^DR]|, times
\* w_tot ad
CalODocNum ==
    SumOver([i \in 1..cal.n_groups |-> Abs(GroupC(i) * AteDen - GroupW(i) * AteNum)],
            1..cal.n_groups)

\* C13: the overall calibration error evaluate_cal computes is the one the class
\* documentation defines: the sum over the groups of pi times the distance
\* between the group's mean CATE prediction and the ATE.
C13_OverallErrorAsDocumented ==
    cal.pc = "done" => REq(cal.res[1].cal_score_o, <<CalODocNum, WTot * AteDen>>)

\* C14: every validation unit is in exactly one group, and the group masses
\* pi sum to 1.
C14_GroupsPartitionValidationUnits ==
    cal.pc = "done" =>
        /\ \A u \in Units :
             Cardinality({i \in 1..cal.n_groups : u \in cal.res[1].ind[i]}) = 1
        /\ REq(RSumSeq(cal.res[1].probs, cal.n_groups), <<1, 1>>)

\* the overall error with the ATE taken under the weights of this call, times
\* w_tot^2
CalOCallNum ==
    SumOver([i \in 1..cal.n_groups |->
                Abs(GroupS(i) * WTot
                      - GroupW(i) * SumOver([u \in Units |->
                                               cal.sampleweightval[u] * cal.dr_val[u]], Units))],
            1..cal.n_groups)

\* C18: the ATE in the overall calibration error is the mean of the validation
\* DR outcomes under the validation weights given to this evaluate_cal call,
\* whatever weights fit_nuisance was given.
C18_AteUnderCallWeights ==
    cal.pc = "done" => REq(cal.res[1].cal_score_o, <<CalOCallNum, WTot * WTot>>)

====
